---- MODULE Spec2Model ----
(***************************************************************************)
(* The assistant bot of src/1.py: validated fields (Phone, Birthday), the  *)
(* Record and AddressBook classes, the birthday-window query and the       *)
(* command functions layered on them.                                      *)
(*                                                                         *)
(* A Python str is modelled as a sequence of one-character strings, so     *)
(* that len(), isdigit(), strptime() and strftime() are computed character *)
(* by character.  A date is a record [y, m, d].                            *)
(***************************************************************************)
EXTENDS Integers, Sequences, FiniteSets, TLC

(***************************************************************************)
(* Characters and integers                                                 *)
(***************************************************************************)
DigitSeq == <<"0", "1", "2", "3", "4", "5", "6", "7", "8", "9">>

Digits == {DigitSeq[i] : i \in 1..Len(DigitSeq)}

NonZeroDigits == Digits \ {"0"}

DigitVal(c) == (CHOOSE i \in 1..Len(DigitSeq) : DigitSeq[i] = c) - 1

DigitChar(n) == DigitSeq[n + 1]

\* str.isdigit(): every character is a digit and there is at least one.
isdigit(s) == Len(s) > 0 /\ \A i \in 1..Len(s) : s[i] \in Digits

\* int() of a token matched by the strptime patterns: digits, possibly after blanks.
RECURSIVE int(_)
int(s) ==
    IF Len(s) = 0 THEN 0
    ELSE IF s[Len(s)] = " " THEN int(SubSeq(s, 1, Len(s) - 1))
    ELSE 10 * int(SubSeq(s, 1, Len(s) - 1)) + DigitVal(s[Len(s)])

(***************************************************************************)
(* The proleptic Gregorian calendar of datetime.date                       *)
(***************************************************************************)
\* Python's None; also what an operator yields where the code raises ValueError.
None == [none |-> TRUE]

is_leap(year) == year % 4 = 0 /\ (year % 100 # 0 \/ year % 400 = 0)

days_in_month(year, month) ==
    IF month = 2 THEN (IF is_leap(year) THEN 29 ELSE 28)
    ELSE IF month \in {4, 6, 9, 11} THEN 30 ELSE 31

days_before_year(year) ==
    (year - 1) * 365 + (year - 1) \div 4 - (year - 1) \div 100 + (year - 1) \div 400

RECURSIVE days_before_month(_, _)
days_before_month(year, month) ==
    IF month = 1 THEN 0
    ELSE days_before_month(year, month - 1) + days_in_month(year, month - 1)

toordinal(date) == days_before_year(date.y) + days_before_month(date.y, date.m) + date.d

\* date.weekday(): Monday is 0, Sunday is 6.
weekday(date) == (toordinal(date) + 6) % 7

\* date.__lt__
date_lt(a, b) ==
    \/ a.y < b.y
    \/ a.y = b.y /\ a.m < b.m
    \/ a.y = b.y /\ a.m = b.m /\ a.d < b.d

\* The checks of the date constructor (MINYEAR = 1, MAXYEAR = 9999).
valid_date(year, month, day) ==
    /\ year \in 1..9999
    /\ month \in 1..12
    /\ day \in 1..days_in_month(year, month)

\* date.replace(year=...) raises ValueError exactly when this is false.
replace_ok(date, year) == valid_date(year, date.m, date.d)

replace(date, year) == [date EXCEPT !.y = year]

(***************************************************************************)
(* datetime.strptime(s, "%d.%m.%Y") and strftime("%d.%m.%Y")               *)
(***************************************************************************)
\* %d: 3[0-1] | [1-2]\d | 0[1-9] | [1-9] | " "[1-9]
MatchDay(t) ==
    \/ /\ Len(t) = 2
       /\ \/ t[1] = "3" /\ t[2] \in {"0", "1"}
          \/ t[1] \in {"1", "2"} /\ t[2] \in Digits
          \/ t[1] = "0" /\ t[2] \in NonZeroDigits
          \/ t[1] = " " /\ t[2] \in NonZeroDigits
    \/ Len(t) = 1 /\ t[1] \in NonZeroDigits

\* %m: 1[0-2] | 0[1-9] | [1-9]
MatchMonth(t) ==
    \/ /\ Len(t) = 2
       /\ \/ t[1] = "1" /\ t[2] \in {"0", "1", "2"}
          \/ t[1] = "0" /\ t[2] \in NonZeroDigits
    \/ Len(t) = 1 /\ t[1] \in NonZeroDigits

\* %Y: \d\d\d\d
MatchYear(t) == Len(t) = 4 /\ isdigit(t)

\* The ways the compiled pattern matches a prefix of s: <<k, j>> are the lengths
\* of the day and of the month token.  At most one pair matches.
Matches(s) ==
    {kj \in {1, 2} \X {1, 2} :
        LET k == kj[1]
            j == kj[2]
        IN  /\ Len(s) >= k + j + 6
            /\ MatchDay(SubSeq(s, 1, k))
            /\ s[k + 1] = "."
            /\ MatchMonth(SubSeq(s, k + 2, k + 1 + j))
            /\ s[k + j + 2] = "."
            /\ MatchYear(SubSeq(s, k + j + 3, k + j + 6))}

\* The date strptime returns, or None where it raises ValueError: no match,
\* unconverted data after the match, or a day/month/year that is no date.
strptime(s) ==
    IF Matches(s) = {} THEN None
    ELSE LET kj == CHOOSE x \in Matches(s) : TRUE
             k == kj[1]
             j == kj[2]
             day == int(SubSeq(s, 1, k))
             month == int(SubSeq(s, k + 2, k + 1 + j))
             year == int(SubSeq(s, k + j + 3, k + j + 6))
         IN  IF Len(s) # k + j + 6 THEN None
             ELSE IF ~valid_date(year, month, day) THEN None
             ELSE [y |-> year, m |-> month, d |-> day]

\* %d and %m: two digits, zero padded.
two_digits(n) == <<DigitChar(n \div 10), DigitChar(n % 10)>>

RECURSIVE decimal(_)
decimal(n) == IF n < 10 THEN <<DigitChar(n)>> ELSE Append(decimal(n \div 10), DigitChar(n % 10))

\* %Y is the C library's: four digits zero padded where the library pads, the
\* plain decimal number (glibc) where it does not.
format_year(year, pads) ==
    IF pads
    THEN <<DigitChar(year \div 1000), DigitChar((year \div 100) % 10),
           DigitChar((year \div 10) % 10), DigitChar(year % 10)>>
    ELSE decimal(year)

strftime(date, pads) ==
    two_digits(date.d) \o <<".">> \o two_digits(date.m) \o <<".">> \o format_year(date.y, pads)

(***************************************************************************)
(* Field classes                                                           *)
(***************************************************************************)
\* Phone.validate
Phone_validate(phone) == Len(phone) = 10 /\ isdigit(phone)

\* Birthday.validate: strptime did not raise.
Birthday_validate(date) == strptime(date) # None

\* Field.__init__ by way of Name
Name(name) == [value |-> name]

\* Phone.__init__ on a string that validates
Phone(phone) == [value |-> phone]

\* Birthday.__init__ on a string that validates: the parsed date is the value.
Birthday(date) == [value |-> strptime(date)]

(***************************************************************************)
(* Record                                                                  *)
(***************************************************************************)
Record(name) == [name |-> Name(name), phones |-> <<>>, birthday |-> None]

\* Record.add_phone, where Phone(phone) does not raise.
add_phone(record, phone) == [record EXCEPT !.phones = Append(@, Phone(phone))]

\* Record.add_birthday, where Birthday(date) does not raise.
add_birthday(record, date) == [record EXCEPT !.birthday = Birthday(date)]

(***************************************************************************)
(* AddressBook: a dict, which keeps its keys in insertion order, as the    *)
(* sequence of its items [key, rec].                                       *)
(***************************************************************************)
Keys(b) == {b[i].key : i \in 1..Len(b)}

\* name in book
contains(b, name) == name \in Keys(b)

IndexOf(b, name) == CHOOSE i \in 1..Len(b) : b[i].key = name

\* book[name], for a name in book
getitem(b, name) == b[IndexOf(b, name)].rec

\* self.data[key] = record: an existing key keeps its place.
setitem(b, key, record) ==
    IF contains(b, key)
    THEN [b EXCEPT ![IndexOf(b, key)] = [key |-> key, rec |-> record]]
    ELSE Append(b, [key |-> key, rec |-> record])

\* add_record as a list append: a name already present gets a second entry.
add_record_append(b, record) == Append(b, [key |-> record.name.value, rec |-> record])

\* AddressBook.add_record
add_record(b, record) == setitem(b, record.name.value, record)

\* AddressBook.find: the record, or None.
find(b, name) == IF contains(b, name) THEN getitem(b, name) ELSE None

\* AddressBook.delete
delete(b, name) ==
    IF contains(b, name)
    THEN SubSeq(b, 1, IndexOf(b, name) - 1) \o SubSeq(b, IndexOf(b, name) + 1, Len(b))
    ELSE b

(***************************************************************************)
(* AddressBook.get_birthdays_per_week                                      *)
(***************************************************************************)
Monday == <<"M", "o", "n", "d", "a", "y">>

\* strftime("%A") by date.weekday(), in the C locale.
DayNames ==
    << Monday,
       <<"T", "u", "e", "s", "d", "a", "y">>,
       <<"W", "e", "d", "n", "e", "s", "d", "a", "y">>,
       <<"T", "h", "u", "r", "s", "d", "a", "y">>,
       <<"F", "r", "i", "d", "a", "y">>,
       <<"S", "a", "t", "u", "r", "d", "a", "y">>,
       <<"S", "u", "n", "d", "a", "y">> >>

\* birthday_this_year with 29 February moved to 28 February in a year that has none.
birthday_this_year_clamped(birthday, today) ==
    LET clamp(year) == IF replace_ok(birthday, year) THEN replace(birthday, year)
                       ELSE [y |-> year, m |-> 2, d |-> 28]
    IN  IF date_lt(clamp(today.y), today) THEN clamp(today.y + 1) ELSE clamp(today.y)

\* Lines 72 to 75: the birthday in today's year, moved to the next year when it
\* is before today; None where date.replace raises ValueError.
birthday_this_year(birthday, today) ==
    IF ~replace_ok(birthday, today.y) THEN None
    ELSE IF date_lt(replace(birthday, today.y), today)
         THEN (IF replace_ok(birthday, today.y + 1)
               THEN replace(birthday, today.y + 1)
               ELSE None)
         ELSE replace(birthday, today.y)

\* Line 77
delta_days(date, today) == toordinal(date) - toordinal(today)

\* Line 79
in_window(delta) == delta < 7

\* weekday_name without the move of Saturday and Sunday to Monday.
weekday_name_no_remap(date) == DayNames[weekday(date) + 1]

\* Lines 80 to 84
weekday_name(date) ==
    IF weekday(date) \in {5, 6} THEN Monday ELSE DayNames[weekday(date) + 1]

\* birthdays[weekday].append(name) on a defaultdict(list): a new key goes last.
group_append(groups, label, name) ==
    IF \E i \in 1..Len(groups) : groups[i].weekday = label
    THEN LET i == CHOOSE k \in 1..Len(groups) : groups[k].weekday = label
         IN  [groups EXCEPT ![i].names = Append(@, name)]
    ELSE Append(groups, [weekday |-> label, names |-> <<name>>])

\* The loop over self.data.values() from its i-th item on.
RECURSIVE birthdays_loop(_, _, _, _)
birthdays_loop(b, today, i, groups) ==
    IF i > Len(b) THEN [raised |-> FALSE, groups |-> groups]
    ELSE LET record == b[i].rec
         IN  IF record.birthday = None
             THEN birthdays_loop(b, today, i + 1, groups)
             ELSE LET date == birthday_this_year(record.birthday.value, today)
                  IN  IF date = None
                      THEN [raised |-> TRUE, groups |-> <<>>]
                      ELSE IF in_window(delta_days(date, today))
                      THEN birthdays_loop(b, today, i + 1,
                               group_append(groups, weekday_name(date), record.name.value))
                      ELSE birthdays_loop(b, today, i + 1, groups)

get_birthdays_per_week(b, today) == birthdays_loop(b, today, 1, <<>>)

(***************************************************************************)
(* Bot functions.  Each yields an outcome: the book it leaves, the         *)
(* exception it raises ("none": it returns), and what it returns: a        *)
(* message (text) or a computed string (value).                            *)
(***************************************************************************)
NoGroups == [raised |-> FALSE, groups |-> <<>>]

Return(b, text, value) ==
    [book |-> b, exc |-> "none", caught |-> "none", text |-> text, value |-> value,
     query |-> NoGroups]

Raise(b, exc, text) ==
    [book |-> b, exc |-> exc, caught |-> "none", text |-> text, value |-> <<>>,
     query |-> NoGroups]

\* str(e): a KeyError shows the repr of its message.
str(exc, text) ==
    IF exc # "KeyError" THEN text
    ELSE CASE text = "Contact already exists." -> "'Contact already exists.'"
           [] text = "Contact not found." -> "'Contact not found.'"
           [] text = "Contact or birthday not found." -> "'Contact or birthday not found.'"
           [] OTHER -> text

\* The decorator: ValueError, IndexError and KeyError become the returned string.
input_error(o) ==
    IF o.exc \in {"ValueError", "IndexError", "KeyError"}
    THEN [o EXCEPT !.exc = "none", !.caught = o.exc, !.text = str(o.exc, o.text)]
    ELSE o

\* name, phone = args
unpack2_error(args) ==
    CASE Len(args) = 0 -> "not enough values to unpack (expected 2, got 0)"
      [] Len(args) = 1 -> "not enough values to unpack (expected 2, got 1)"
      [] OTHER -> "too many values to unpack (expected 2)"

\* add_contact with the record inserted before its phone is validated.
add_contact_early_insert(b, args) ==
    IF Len(args) # 2 THEN Raise(b, "ValueError", unpack2_error(args))
    ELSE LET name == args[1]
             phone == args[2]
         IN  IF ~contains(b, name)
             THEN IF ~Phone_validate(phone)
                  THEN Raise(add_record(b, Record(name)), "ValueError", "Invalid phone format")
                  ELSE Return(add_record(b, add_phone(Record(name), phone)),
                              "Contact added.", <<>>)
             ELSE Raise(b, "KeyError", "Contact already exists.")

\* add_contact without the call of record.add_phone.
add_contact_skip_phone(b, args) ==
    IF Len(args) # 2 THEN Raise(b, "ValueError", unpack2_error(args))
    ELSE LET name == args[1]
             phone == args[2]
         IN  IF ~contains(b, name)
             THEN IF ~Phone_validate(phone)
                  THEN Raise(b, "ValueError", "Invalid phone format")
                  ELSE Return(add_record(b, Record(name)), "Contact added.", <<>>)
             ELSE Raise(b, "KeyError", "Contact already exists.")

add_contact(b, args) ==
    IF Len(args) # 2 THEN Raise(b, "ValueError", unpack2_error(args))
    ELSE LET name == args[1]
             phone == args[2]
         IN  IF ~contains(b, name)
             THEN IF ~Phone_validate(phone)
                  THEN Raise(b, "ValueError", "Invalid phone format")
                  ELSE Return(add_record(b, add_phone(Record(name), phone)),
                              "Contact added.", <<>>)
             ELSE Raise(b, "KeyError", "Contact already exists.")

add_contact_safely(b, args) == input_error(add_contact(b, args))

\* The change as an append of the new phone instead of an overwrite.
set_first_phone_append(record, phone) == [record EXCEPT !.phones = Append(@, Phone(phone))]

\* record.phones[0].value = phone
set_first_phone(record, phone) == [record EXCEPT !.phones[1].value = phone]

change_contact(b, args) ==
    IF Len(args) # 2 THEN Raise(b, "ValueError", unpack2_error(args))
    ELSE LET name == args[1]
             phone == args[2]
         IN  IF contains(b, name)
             THEN IF Len(getitem(b, name).phones) = 0
                  THEN Raise(b, "IndexError", "list index out of range")
                  ELSE Return(setitem(b, name, set_first_phone(getitem(b, name), phone)),
                              "Contact updated.", <<>>)
             ELSE Raise(b, "KeyError", "Contact not found.")

change_contact_safely(b, args) == input_error(change_contact(b, args))

get_phone(b, args) ==
    IF Len(args) = 0 THEN Raise(b, "IndexError", "list index out of range")
    ELSE LET name == args[1]
         IN  IF contains(b, name)
             THEN IF Len(getitem(b, name).phones) = 0
                  THEN Raise(b, "IndexError", "list index out of range")
                  ELSE Return(b, "", getitem(b, name).phones[1].value)
             ELSE Raise(b, "KeyError", "Contact not found.")

get_phone_safely(b, args) == input_error(get_phone(b, args))

add_birthday_cmd(b, args) ==
    IF Len(args) # 2 THEN Raise(b, "ValueError", unpack2_error(args))
    ELSE LET name == args[1]
             date == args[2]
         IN  IF contains(b, name)
             THEN IF ~Birthday_validate(date)
                  THEN Raise(b, "ValueError", "Invalid birthday format")
                  ELSE Return(setitem(b, name, add_birthday(getitem(b, name), date)),
                              "Birthday added.", <<>>)
             ELSE Raise(b, "KeyError", "Contact not found.")

add_birthday_safely(b, args) == input_error(add_birthday_cmd(b, args))

show_birthday(b, args, pads) ==
    IF Len(args) = 0 THEN Raise(b, "IndexError", "list index out of range")
    ELSE LET name == args[1]
         IN  IF contains(b, name) /\ getitem(b, name).birthday # None
             THEN Return(b, "", strftime(getitem(b, name).birthday.value, pads))
             ELSE Raise(b, "KeyError", "Contact or birthday not found.")

show_birthday_safely(b, args, pads) == input_error(show_birthday(b, args, pads))

\* sep.join(parts)
RECURSIVE join(_, _)
join(sep, parts) ==
    IF Len(parts) = 0 THEN <<>>
    ELSE IF Len(parts) = 1 THEN parts[1]
    ELSE parts[1] \o sep \o join(sep, Tail(parts))

\* Not decorated: an exception raised here leaves the function.
show_all_contacts(b) ==
    IF Len(b) = 0 THEN Return(b, "No contacts stored.", <<>>)
    ELSE IF \E i \in 1..Len(b) : Len(b[i].rec.phones) = 0
    THEN Raise(b, "IndexError", "list index out of range")
    ELSE Return(b, "", join(<<"\n">>,
                    [i \in 1..Len(b) |-> b[i].key \o <<":", " ">> \o b[i].rec.phones[1].value]))

\* Not decorated either.
show_birthdays_next_week(b, today) ==
    LET birthdays == get_birthdays_per_week(b, today)
    IN  IF birthdays.raised
        THEN [Raise(b, "ValueError", "day is out of range for month")
                 EXCEPT !.query = birthdays]
        ELSE IF Len(birthdays.groups) = 0
        THEN [Return(b, "No birthdays next week.", <<>>) EXCEPT !.query = birthdays]
        ELSE [Return(b, "", join(<<"\n">>,
                 [i \in 1..Len(birthdays.groups) |->
                     birthdays.groups[i].weekday \o <<":", " ">>
                         \o join(<<",", " ">>, birthdays.groups[i].names)]))
                 EXCEPT !.query = birthdays]

(***************************************************************************)
(* Inputs                                                                  *)
(***************************************************************************)
\* The longest argument list a command line is given.
MaxArgs == 3

\* The number of consecutive days, from each of FirstDays, on which the
\* birthdays command is run.
SpanDays == 9

\* The longest phone list of a record handed to add_record directly.
MaxPhones == 1

Ann == <<"a", "n", "n">>

Bob == <<"b", "o", "b">>

Names == {Ann, Bob}

Phone1 == <<"0", "1", "2", "3", "4", "5", "6", "7", "8", "9">>

Phone2 == <<"5", "5", "5", "0", "0", "0", "1", "1", "1", "2">>

BadPhone == <<"0", "1", "2", "3", "4", "x", "6", "7", "8", "9">>

\* Two phones that validate and one of ten characters that does not.
Phones == {Phone1, Phone2, BadPhone}

Leap29 == <<"2", "9", ".", "0", "2", ".", "2", "0", "2", "0">>

Jan01 == <<"0", "1", ".", "0", "1", ".", "2", "0", "0", "0">>

Jan03 == <<"0", "3", ".", "0", "1", ".", "0", "9", "9", "9">>

\* Three dates in DD.MM.YYYY form, one with a one-digit day and month, and three
\* strings that are no date of the format.
Dates == {Leap29, Jan01, Jan03,
          <<"1", ".", "1", ".", "2", "0", "0", "0">>,
          <<"3", "0", ".", "0", "2", ".", "2", "0", "2", "1">>,
          <<"2", "0", "2", "1", ".", "0", "2", ".", "0", "1">>,
          <<>>}

\* Argument lists: none, a name, a name and a second argument, and longer ones.
TooMany(k) == [i \in 1..k |-> Ann]

ArgLists(names, seconds) ==
    {<<>>} \cup {<<n>> : n \in names}
           \cup {<<n, s>> : n \in names, s \in seconds}
           \cup {TooMany(k) : k \in 3..MaxArgs}

NameArgLists(names) ==
    {<<>>} \cup {<<n>> : n \in names} \cup {TooMany(k) : k \in 2..MaxArgs}

\* date + timedelta(days=1)
tomorrow(date) ==
    IF date.d < days_in_month(date.y, date.m) THEN [date EXCEPT !.d = @ + 1]
    ELSE IF date.m < 12 THEN [date EXCEPT !.m = @ + 1, !.d = 1]
    ELSE [y |-> date.y + 1, m |-> 1, d |-> 1]

RECURSIVE plus_days(_, _)
plus_days(date, k) == IF k = 0 THEN date ELSE plus_days(tomorrow(date), k - 1)

\* Saturday 26 December 2026 (a year end) and Tuesday 22 February 2028 (a week
\* before a 29 February).
FirstDays == {[y |-> 2026, m |-> 12, d |-> 26], [y |-> 2028, m |-> 2, d |-> 22]}

\* The values datetime.today().date() takes.
Todays == {plus_days(f, k) : f \in FirstDays, k \in 0..(SpanDays - 1)}

(***************************************************************************)
(* State                                                                   *)
(***************************************************************************)
VARIABLES
    book,       \* the AddressBook of main()
    cmd,        \* the command main() ran last
    args,       \* its argument list
    clock,      \* the date it read from datetime.today(), None if it read none
    ret,        \* its outcome: what it returned, or the exception that left it
    padsYear    \* whether the C library's strftime zero-pads %Y to four digits

vars == <<book, cmd, args, clock, ret, padsYear>>

Outcome(o) == [exc |-> o.exc, caught |-> o.caught, text |-> o.text, value |-> o.value,
               query |-> o.query]

Init ==
    /\ book = <<>>
    /\ cmd = "start"
    /\ args = <<>>
    /\ clock = None
    /\ ret = Outcome(Return(<<>>, "Welcome to the assistant bot!", <<>>))
    /\ padsYear \in BOOLEAN

\* One command of main()'s loop: the book the function leaves and what it gave.
Call(c, a, today, o) ==
    \E x \in {o} :
        /\ book' = x.book
        /\ cmd' = c
        /\ args' = a
        /\ clock' = today
        /\ ret' = Outcome(x)
        /\ UNCHANGED padsYear

Add(lists) == \E a \in lists : Call("add", a, None, add_contact_safely(book, a))

Change(lists) == \E a \in lists : Call("change", a, None, change_contact_safely(book, a))

GetPhone(lists) == \E a \in lists : Call("phone", a, None, get_phone_safely(book, a))

ShowAll == Call("all", <<>>, None, show_all_contacts(book))

AddBirthday(lists) ==
    \E a \in lists : Call("add-birthday", a, None, add_birthday_safely(book, a))

ShowBirthday(lists) ==
    \E a \in lists : Call("show-birthday", a, None, show_birthday_safely(book, a, padsYear))

Birthdays(days) ==
    \E today \in days : Call("birthdays", <<>>, today, show_birthdays_next_week(book, today))

Next ==
    \/ Add(ArgLists(Names, Phones))
    \/ Change(ArgLists(Names, Phones))
    \/ GetPhone(NameArgLists(Names))
    \/ ShowAll
    \/ AddBirthday(ArgLists(Names, Dates))
    \/ ShowBirthday(NameArgLists(Names))
    \/ Birthdays(Todays)

Spec == Init /\ [][Next]_vars

(***************************************************************************)
(* The AddressBook used directly as well: add_record and delete next to    *)
(* the commands, on fewer inputs.                                          *)
(***************************************************************************)
\* Record(name) after k calls of add_phone(Phone1).
RECURSIVE NewRecord(_, _)
NewRecord(name, k) == IF k = 0 THEN Record(name) ELSE add_phone(NewRecord(name, k - 1), Phone1)

AddRecord ==
    \E n \in Names, k \in 0..MaxPhones :
        Call("add_record", <<n>>, None, Return(add_record(book, NewRecord(n, k)), "", <<>>))

Delete == \E n \in Names : Call("delete", <<n>>, None, Return(delete(book, n), "", <<>>))

DirPhones == {Phone1, BadPhone}

DirDates == {Jan01, <<>>}

DirDays == {[y |-> 2026, m |-> 12, d |-> 28]}

NextDir ==
    \/ AddRecord
    \/ Delete
    \/ Add(ArgLists(Names, DirPhones))
    \/ Change(ArgLists(Names, DirPhones))
    \/ GetPhone(NameArgLists(Names))
    \/ ShowAll
    \/ AddBirthday(ArgLists(Names, DirDates))
    \/ ShowBirthday(NameArgLists(Names))
    \/ Birthdays(DirDays)

SpecDir == Init /\ [][NextDir]_vars

(***************************************************************************)
(* Vocabulary of the properties                                            *)
(***************************************************************************)
Entries == 1..Len(book)

\* Ten characters, all decimal digits.
TenDigits(s) ==
    Len(s) = 10 /\ \A i \in 1..10 : s[i] \in {"0", "1", "2", "3", "4", "5", "6", "7", "8", "9"}

\* A string of the form DD.MM.YYYY.
StrictForm(s) ==
    /\ Len(s) = 10
    /\ s[3] = "." /\ s[6] = "."
    /\ \A i \in {1, 2, 4, 5, 7, 8, 9, 10} : s[i] \in Digits

\* The last call reported a failure: it returned the text of an exception, or
\* an exception left it.
Failed(r) == r.caught # "none" \/ r.exc # "none"

\* The days from today on (0 to 6) on which the month and day of birthday fall.
HitsWithinWeek(birthday, today) ==
    {k \in 0..6 : plus_days(today, k).m = birthday.m /\ plus_days(today, k).d = birthday.d}

WithinWeek(birthday, today) == HitsWithinWeek(birthday, today) # {}

NextOccurrence(birthday, today) ==
    plus_days(today, CHOOSE k \in HitsWithinWeek(birthday, today) :
                        \A l \in HitsWithinWeek(birthday, today) : k <= l)

\* The day of the week by Zeller's congruence: 0 Saturday, 1 Sunday, 2 Monday, ...
Zeller(date) ==
    LET mm == IF date.m < 3 THEN date.m + 12 ELSE date.m
        yy == IF date.m < 3 THEN date.y - 1 ELSE date.y
    IN  (date.d + ((13 * (mm + 1)) \div 5) + (yy % 100) + ((yy % 100) \div 4)
            + ((yy \div 100) \div 4) + (5 * (yy \div 100))) % 7

\* The label the weekend rule gives a date.
ExpectedLabel(date) ==
    IF Zeller(date) \in {0, 1} THEN Monday ELSE DayNames[((Zeller(date) + 5) % 7) + 1]

\* How often the last query's result lists a name.
TimesListed(name) ==
    Cardinality({ij \in (1..Len(ret.query.groups)) \X (1..Len(book)) :
                    /\ ij[2] <= Len(ret.query.groups[ij[1]].names)
                    /\ ret.query.groups[ij[1]].names[ij[2]] = name})

Labels == {ret.query.groups[i].weekday : i \in 1..Len(ret.query.groups)}

\* The year the query moves a 29 February to: this year, or the next one when
\* today is after February.
LeapDayYear(today) == IF today.m > 2 THEN today.y + 1 ELSE today.y

HasLeapDay(b) ==
    \E i \in 1..Len(b) :
        /\ b[i].rec.birthday # None
        /\ b[i].rec.birthday.value.m = 2 /\ b[i].rec.birthday.value.d = 29

(***************************************************************************)
(* C1: every phone stored in every record has exactly ten characters, all  *)
(* decimal digits, in every state the commands reach.                      *)
(***************************************************************************)
C1_PhonesAreTenDigits ==
    \A i \in Entries : \A j \in 1..Len(book[i].rec.phones) : TenDigits(book[i].rec.phones[j].value)

(***************************************************************************)
(* C2: every command returns a string; no exception leaves its call.       *)
(***************************************************************************)
C2_NoExceptionEscapes == ret.exc = "none"

(***************************************************************************)
(* C3: a command that reports a failure leaves the book as it was.         *)
(***************************************************************************)
C3_FailureLeavesBook == [][Failed(ret') => book' = book]_vars

\* Reached: add-birthday with an invalid date failed on a contact that has a birthday.
C3_Witness ==
    /\ cmd = "add-birthday" /\ Len(args) = 2
    /\ ret.caught = "ValueError" /\ ret.text = "Invalid birthday format"
    /\ contains(book, args[1]) /\ getitem(book, args[1]).birthday # None
    /\ Len(book) = 2

(***************************************************************************)
(* C4: the query lists a name, exactly once, if and only if the contact    *)
(* has a birthday whose next occurrence is 0 to 6 days after today.        *)
(***************************************************************************)
C4_ListedIffWithinWeek ==
    cmd = "birthdays" =>
        \A i \in Entries :
            TimesListed(book[i].key) =
                (IF book[i].rec.birthday # None
                    /\ WithinWeek(book[i].rec.birthday.value, clock)
                 THEN 1 ELSE 0)

\* Where the query returns a grouping, that grouping does list exactly those names.
ListedIffWithinWeekWhenReturned ==
    (cmd = "birthdays" /\ ~ret.query.raised) =>
        \A i \in Entries :
            TimesListed(book[i].key) =
                (IF book[i].rec.birthday # None
                    /\ WithinWeek(book[i].rec.birthday.value, clock)
                 THEN 1 ELSE 0)

(***************************************************************************)
(* C5: every listed name is under the weekday of its birthday's next       *)
(* occurrence, or under Monday when that is a Saturday or Sunday; no group *)
(* is labelled Saturday or Sunday.                                         *)
(***************************************************************************)
C5_WeekdayGrouping ==
    cmd = "birthdays" =>
        /\ DayNames[6] \notin Labels /\ DayNames[7] \notin Labels
        /\ \A g \in 1..Len(ret.query.groups) :
             \A j \in 1..Len(ret.query.groups[g].names) :
                LET name == ret.query.groups[g].names[j]
                IN  /\ contains(book, name)
                    /\ getitem(book, name).birthday # None
                    /\ WithinWeek(getitem(book, name).birthday.value, clock)
                    /\ ret.query.groups[g].weekday =
                          ExpectedLabel(NextOccurrence(getitem(book, name).birthday.value,
                                                       clock))

\* Reached: a weekday group and a Monday group that holds a weekend birthday.
C5_Witness ==
    /\ cmd = "birthdays"
    /\ Len(ret.query.groups) = 2
    /\ \E g \in 1..2 :
         /\ ret.query.groups[g].weekday = Monday
         /\ Zeller(NextOccurrence(
                       getitem(book, ret.query.groups[g].names[1]).birthday.value,
                       clock)) \in {0, 1}
    /\ \E g \in 1..2 : ret.query.groups[g].weekday = DayNames[5]

(***************************************************************************)
(* C6: every key of the book maps to a record of that name, and no name    *)
(* has two entries, whatever add_record, delete and the commands do.       *)
(***************************************************************************)
C6_KeyIsRecordName ==
    /\ \A i \in Entries : book[i].key = book[i].rec.name.value
    /\ \A i, j \in Entries : book[i].key = book[j].key => i = j

\* Reached: add_record has replaced the record of a name already present.
C6_Witness ==
    /\ cmd = "add_record"
    /\ Len(book) = 2
    /\ args[1] = book[1].key
    /\ Len(book[1].rec.phones) = 0

(***************************************************************************)
(* C7: show-birthday returns the DD.MM.YYYY string that the stored         *)
(* birthday was added as, and fails with the combined error for an absent  *)
(* name or a record without birthday.                                      *)
(***************************************************************************)
C7_ShowBirthdayRoundTrip ==
    (cmd = "show-birthday" /\ Len(args) > 0) =>
        IF contains(book, args[1]) /\ getitem(book, args[1]).birthday # None
        THEN \A d \in Dates :
                (StrictForm(d) /\ strptime(d) = getitem(book, args[1]).birthday.value)
                    => (ret.caught = "none" /\ ret.value = d)
        ELSE ret.caught = "KeyError" /\ ret.text = "'Contact or birthday not found.'"

(***************************************************************************)
(* C8: add contact with a new name and a valid phone succeeds; find then   *)
(* gives a record with that one phone and no birthday, and every other     *)
(* entry is as before.                                                     *)
(***************************************************************************)
C8_AddContactThenFind ==
    [][(cmd' = "add" /\ Len(args') = 2 /\ ~contains(book, args'[1]) /\ TenDigits(args'[2]))
        => /\ ret'.exc = "none" /\ ret'.caught = "none" /\ ret'.text = "Contact added."
           /\ find(book', args'[1]) =
                 [name |-> [value |-> args'[1]], phones |-> <<[value |-> args'[2]]>>,
                  birthday |-> None]
           /\ Keys(book') = Keys(book) \cup {args'[1]}
           /\ \A n \in Keys(book) : find(book', n) = find(book, n)]_vars

\* Reached: a contact was added to a book that already held one with a birthday.
C8_Witness ==
    /\ cmd = "add" /\ ret.text = "Contact added."
    /\ Len(book) = 2
    /\ book[1].rec.birthday # None
    /\ book[2].rec.phones = <<[value |-> args[2]]>>

(***************************************************************************)
(* C9: with a 29 February birthday in the book and a year without one to   *)
(* move it to, the query raises, whatever else lies in the window.         *)
(***************************************************************************)
C9_LeapDayRaises ==
    (cmd = "birthdays" /\ HasLeapDay(book) /\ ~is_leap(LeapDayYear(clock)))
        => (ret.query.raised /\ ret.exc = "ValueError")

\* Reached: the query raised although another contact's birthday is in the window.
C9_Witness ==
    /\ cmd = "birthdays" /\ ret.query.raised
    /\ HasLeapDay(book)
    /\ \E i \in Entries :
         book[i].rec.birthday # None /\ WithinWeek(book[i].rec.birthday.value, clock)

(***************************************************************************)
(* C10: through the commands alone every record holds exactly one phone,   *)
(* so phone on a present name and all never index an empty phone list.     *)
(***************************************************************************)
C10_OnePhonePerRecord ==
    /\ \A i \in Entries : Len(book[i].rec.phones) = 1
    /\ (cmd = "phone" /\ Len(args) > 0 /\ contains(book, args[1]))
           => (ret.caught = "none" /\ ret.value = getitem(book, args[1]).phones[1].value)
    /\ cmd = "all" => ret.exc = "none"

\* Reached: all lists two contacts, the first of which had its phone changed.
C10_Witness ==
    /\ cmd = "all" /\ Len(book) = 2
    /\ ~TenDigits(book[1].rec.phones[1].value)
    /\ Len(ret.value) > 0

====
